---------------------------- MODULE Spec2Model ----------------------------
(***************************************************************************)
(* lgfontgen: packaging of a font into an LG font apk.                     *)
(*                                                                         *)
(* Python ints are unbounded; they are represented here as little-endian   *)
(* sequences of base-65536 limbs, so that "multiply and add without        *)
(* reduction" and "& 0xffffffff" are distinct computations.  Byte strings  *)
(* are sequences over 0..255, text strings are sequences of one-character  *)
(* strings.                                                                *)
(***************************************************************************)
EXTENDS Integers, Sequences, FiniteSets, TLC

VARIABLES
    files,          \* main: the list of input fonts (files on disk, read-only)
    count,          \* main: the position in files of the font being processed
    pc,             \* main: the statement of the loop body that runs next
    log,            \* main: the errors logged, one entry per logger.error
    output_dir,     \* main: the apk written for each input, in the output directory
    font_file,      \* the FontFile object (the in-memory font), or None
    compile_reqs,   \* FontAPK.compile_reqs, the five readiness flags
    apk_dir,        \* the files of the apk directory FontAPK works on
    font_data,      \* the FontData object of set_font_data / get_font_data, or None
    value,          \* the bytes returned by FontData.get_font_data, or None
    calls,          \* the number of FontAPK methods called so far
    last,           \* the last FontAPK method called and whether it raised
    san             \* sanitise_alphanum: its to_ignore and the strings it was
                    \* given and returned, or None

vars == <<files, count, pc, log, output_dir, font_file, compile_reqs, apk_dir,
          font_data, value, calls, last, san>>

mainVars == <<files, count, pc, log, output_dir>>
apkVars == <<compile_reqs, apk_dir, font_data, value, calls, last>>

\* None where bytes or text are expected, and None where an object is expected
None == "None"
NoObject == [none |-> TRUE]

\* no FontAPK method has been called yet
NoCall == [op |-> "none", raised |-> FALSE]

\* FontAPK.font_ttf_path
FONT_TTF_PATH == "assets/font.ttf"

(***************************************************************************)
(* Bounds of the model.                                                    *)
(***************************************************************************)
MaxBytes == 4
MaxNameLen == 44
MaxCalls == 6
MaxFiles == 2
MaxSanLen == 4
MaxSanCalls == 2

(***************************************************************************)
(* Python int arithmetic on limb sequences.                                *)
(***************************************************************************)
Base == 256 * 256

Limb(n, i) == IF i <= Len(n) THEN n[i] ELSE 0

\* a native number below 2^31 as a Python int
PyInt(n) == <<n % Base, n \div Base>>

RECURSIVE MulAdd(_, _, _)
\* n * m + c, for a Python int n and small naturals m, c
MulAdd(n, m, c) ==
    IF n = <<>>
    THEN IF c = 0 THEN <<>> ELSE <<c % Base>> \o MulAdd(<<>>, m, c \div Base)
    ELSE LET t == Head(n) * m + c
         IN  <<t % Base>> \o MulAdd(Tail(n), m, t \div Base)

RECURSIVE AddC(_, _, _)
AddC(a, b, c) ==
    IF a = <<>> /\ b = <<>>
    THEN IF c = 0 THEN <<>> ELSE <<c>>
    ELSE LET t == Limb(a, 1) + Limb(b, 1) + c
             ta == IF a = <<>> THEN <<>> ELSE Tail(a)
             tb == IF b = <<>> THEN <<>> ELSE Tail(b)
         IN  <<t % Base>> \o AddC(ta, tb, t \div Base)

\* a + b on Python ints
Add(a, b) == AddC(a, b, 0)

\* n & 0xffffffff
And32(n) == <<Limb(n, 1), Limb(n, 2)>>

\* struct.pack('>I', n): a faulty variant, "wrong byte order"
pack_I_bigendian(n) ==
    <<Limb(n, 2) \div 256, Limb(n, 2) % 256, Limb(n, 1) \div 256, Limb(n, 1) % 256>>

\* struct.pack('<I', n), for 0 <= n < 2^32
pack_I(n) ==
    <<Limb(n, 1) % 256, Limb(n, 1) \div 256, Limb(n, 2) % 256, Limb(n, 2) \div 256>>

(***************************************************************************)
(* FontData                                                                *)
(***************************************************************************)
MAGIC_NUM == 874726033      \* 0x34234291
CONSTANT_1 == 1752785780    \* 0x68796374
CONSTANT_2 == 1752787387    \* 0x687969bb

RECURSIVE hash_loop(_, _)
\* the for loop of _calc_hash: hash = hash * 0x21 + byte, unreduced
hash_loop(hash, data_bytes) ==
    IF data_bytes = <<>> THEN hash
    ELSE hash_loop(MulAdd(hash, 33, Head(data_bytes)), Tail(data_bytes))

\* _calc_hash masking to 16 bits: a faulty variant, "wrong mask"
calc_hash_mask16(data_bytes) == <<Limb(hash_loop(PyInt(5381), data_bytes), 1), 0>>

\* FontData._calc_hash
calc_hash(data_bytes) == And32(hash_loop(PyInt(5381), data_bytes))

\* _uint32_le packing with ">I": a faulty variant, "wrong byte order"
uint32_le_bigendian(data_hex) == pack_I_bigendian(And32(data_hex))

\* FontData._uint32_le
uint32_le(data_hex) == pack_I(And32(data_hex))

\* get_font_data without the final trailer: a faulty variant, "family emitted twice"
get_font_data_no_trailer(name_id_1, name_id_2, checksum_adj) ==
    LET name_id_1_len == pack_I(PyInt(Len(name_id_1)))
        name_id_2_len == pack_I(PyInt(Len(name_id_2)))
    IN  pack_I(PyInt(MAGIC_NUM))
        \o name_id_1_len \o name_id_1
        \o name_id_1_len \o name_id_1
        \o name_id_2_len \o name_id_2
        \o pack_I(checksum_adj)
        \o uint32_le(Add(checksum_adj, PyInt(CONSTANT_1)))
        \o uint32_le(Add(Add(MulAdd(calc_hash(name_id_1), 2, 0),
                             calc_hash(name_id_2)), PyInt(CONSTANT_2)))

\* FontData.get_font_data, from the two encoded names and head.checkSumAdjustment
get_font_data(name_id_1, name_id_2, checksum_adj) ==
    LET magic_num == pack_I(PyInt(MAGIC_NUM))
        name_id_1_len == pack_I(PyInt(Len(name_id_1)))
        name_id_2_len == pack_I(PyInt(Len(name_id_2)))
        byteswapped_checksum == pack_I(checksum_adj)
        byteswapped_checksum_plus_constant ==
            uint32_le(Add(checksum_adj, PyInt(CONSTANT_1)))
        hash_name_id_1 == calc_hash(name_id_1)
        hash_name_id_2 == calc_hash(name_id_2)
        combined_hash ==
            uint32_le(Add(Add(MulAdd(hash_name_id_1, 2, 0), hash_name_id_2),
                          PyInt(CONSTANT_2)))
    IN  magic_num
        \o name_id_1_len \o name_id_1
        \o name_id_1_len \o name_id_1
        \o name_id_2_len \o name_id_2
        \o byteswapped_checksum
        \o byteswapped_checksum_plus_constant
        \o combined_hash
        \o name_id_1_len \o name_id_1

(***************************************************************************)
(* Text: a str is a sequence of characters.  The characters of the model   *)
(* and what str.isalnum, str.lower and str.encode('utf-8') do to them.     *)
(***************************************************************************)
EAcute == "U+00E9"
AlnumChars == {"M", "y", "F", "o", "n", "t", "f", "T", "7", "m", EAcute}
OtherChars == {" ", "!", ".", "-"}

isalnum(char) == char \in AlnumChars

lower_char(char) ==
    CASE char = "M" -> "m" [] char = "F" -> "f" [] char = "T" -> "t" [] OTHER -> char

lower(str) == [i \in 1..Len(str) |-> lower_char(str[i])]

utf8_char(char) ==
    CASE char = "M" -> <<77>> [] char = "y" -> <<121>> [] char = "F" -> <<70>>
      [] char = "o" -> <<111>> [] char = "n" -> <<110>> [] char = "t" -> <<116>>
      [] char = "f" -> <<102>> [] char = "T" -> <<84>> [] char = "7" -> <<55>>
      [] char = "m" -> <<109>> [] char = " " -> <<32>> [] char = "!" -> <<33>>
      [] char = "." -> <<46>> [] char = "-" -> <<45>>
      [] char = EAcute -> <<195, 169>>

RECURSIVE encode_utf8(_)
encode_utf8(str) ==
    IF str = <<>> THEN <<>> ELSE utf8_char(Head(str)) \o encode_utf8(Tail(str))

InStr(char, str) == \E i \in 1..Len(str) : str[i] = char

StartsWith(str, prefix) ==
    Len(prefix) <= Len(str) /\ SubSeq(str, 1, Len(prefix)) = prefix

RECURSIVE str_replace(_, _, _)
\* str.replace(old, new) for a non-empty old: every non-overlapping occurrence,
\* left to right
str_replace(str, old, new) ==
    IF str = <<>> THEN <<>>
    ELSE IF StartsWith(str, old)
         THEN new \o str_replace(SubSeq(str, Len(old) + 1, Len(str)), old, new)
         ELSE <<Head(str)>> \o str_replace(Tail(str), old, new)

RECURSIVE lstrip(_, _)
lstrip(str, char) ==
    IF str # <<>> /\ Head(str) = char THEN lstrip(Tail(str), char) ELSE str

\* PurePath.suffix of a file name: from its last dot, unless the name ends with
\* that dot or has no dot after its first character
path_suffix(name) ==
    LET dots == {i \in 1..Len(name) : name[i] = "."}
        dot == CHOOSE i \in dots : \A j \in dots : j <= i
    IN  IF dots = {} \/ dot = 1 \/ dot = Len(name) THEN <<>>
        ELSE SubSeq(name, dot, Len(name))

(***************************************************************************)
(* utils.py                                                                *)
(***************************************************************************)
\* sanitise_alphanum called without to_ignore: a faulty variant, "space not allowed"
sanitise_alphanum_no_ignore(name, to_ignore) ==
    SelectSeq(name, LAMBDA char : isalnum(char))

\* sanitise_alphanum with "and" for "or": a faulty variant that keeps only
\* the alphanumeric characters that to_ignore lists
sanitise_alphanum_and_ignore(name, to_ignore) ==
    SelectSeq(name, LAMBDA char : isalnum(char) /\ InStr(char, to_ignore))

\* utils.sanitise_alphanum
sanitise_alphanum(name, to_ignore) ==
    SelectSeq(name, LAMBDA char : isalnum(char) \/ InStr(char, to_ignore))

\* utils.get_ext
get_ext(path) == lower(lstrip(path_suffix(path), "."))

\* utils.get_basename_wo_ext
get_basename_wo_ext(path) ==
    LET file_ext == get_ext(path)
    IN  str_replace(path, <<".">> \o file_ext, <<>>)

(***************************************************************************)
(* FontFile                                                                *)
(***************************************************************************)
FAMILY_ID == 1
SUBFAM_ID == 2
MAX_CHARS == 32
PLATFORM_ID == 3
PLATENC_ID == 1
LANG_ID == 1033

NameRecord(string, nameID, platformID, platEncID, langID) ==
    [nameID |-> nameID, platformID |-> platformID, platEncID |-> platEncID,
     langID |-> langID, string |-> string]

\* name.getName of fontTools: the position of the first record with these four
\* ids, 0 when there is none
getName(names, nameID, platformID, platEncID, langID) ==
    LET hits == {i \in 1..Len(names) :
                    /\ names[i].nameID = nameID
                    /\ names[i].platformID = platformID
                    /\ names[i].platEncID = platEncID
                    /\ names[i].langID = langID}
    IN  IF hits = {} THEN 0 ELSE CHOOSE i \in hits : \A j \in hits : i <= j

\* name.setName of fontTools: the record with these four ids gets the string;
\* when there is none, a new record is appended
setName(names, string, nameID, platformID, platEncID, langID) ==
    LET i == getName(names, nameID, platformID, platEncID, langID)
    IN  IF i # 0
        THEN [names EXCEPT ![i].string = string]
        ELSE Append(names, NameRecord(string, nameID, platformID, platEncID, langID))

\* FontFile._locate_name_recs: the records (as positions in name.names) of a role
locate_name_recs(names, name_id) ==
    LET RECURSIVE from(_)
        from(i) == IF i > Len(names) THEN <<>>
                   ELSE (IF names[i].nameID = name_id THEN <<i>> ELSE <<>>) \o from(i + 1)
    IN  from(1)

RECURSIVE setName_each_uncropped(_, _)
\* the for loop of _setName without [:MAX_CHARS]: a faulty variant, "no truncation"
setName_each_uncropped(names, records) ==
    IF records = <<>> THEN names
    ELSE LET old_record == names[Head(records)]
         IN  setName_each_uncropped(
                 setName(names, sanitise_alphanum(old_record.string, <<" ">>),
                         old_record.nameID, old_record.platformID,
                         old_record.platEncID, old_record.langID),
                 Tail(records))

RECURSIVE setName_each_fixed_triple(_, _)
\* the for loop of _setName writing every record under (PLATFORM_ID, PLATENC_ID,
\* LANG_ID): a faulty variant, "record's own triple not preserved"
setName_each_fixed_triple(names, records) ==
    IF records = <<>> THEN names
    ELSE LET old_record == names[Head(records)]
             sanitised_font_name == sanitise_alphanum(old_record.string, <<" ">>)
             cropped_font_name ==
                 SubSeq(sanitised_font_name, 1,
                        IF Len(sanitised_font_name) < MAX_CHARS
                        THEN Len(sanitised_font_name) ELSE MAX_CHARS)
         IN  setName_each_fixed_triple(
                 setName(names, cropped_font_name, old_record.nameID,
                         PLATFORM_ID, PLATENC_ID, LANG_ID),
                 Tail(records))

RECURSIVE setName_each(_, _)
\* the for loop of FontFile._setName over the located records
setName_each(names, records) ==
    IF records = <<>> THEN names
    ELSE LET old_record == names[Head(records)]
             old_name == old_record.string
             sanitised_font_name == sanitise_alphanum(old_name, <<" ">>)
             cropped_font_name ==
                 SubSeq(sanitised_font_name, 1,
                        IF Len(sanitised_font_name) < MAX_CHARS
                        THEN Len(sanitised_font_name) ELSE MAX_CHARS)
         IN  setName_each(setName(names, cropped_font_name, old_record.nameID,
                                  old_record.platformID, old_record.platEncID,
                                  old_record.langID),
                          Tail(records))

\* FontFile._setName
FontFile_setName(names, font_file_name, records, id) ==
    IF Len(records) = 0
    THEN LET sanitised_file_name == sanitise_alphanum(font_file_name, <<" ">>)
             cropped_file_name ==
                 SubSeq(sanitised_file_name, 1,
                        IF Len(sanitised_file_name) < MAX_CHARS
                        THEN Len(sanitised_file_name) ELSE MAX_CHARS)
         IN  setName(names, cropped_file_name, id, PLATFORM_ID, PLATENC_ID, LANG_ID)
    ELSE setName_each(names, records)

\* FontFile.sanitise_name: both roles are located before either is set
sanitise_name(names, font_file_name) ==
    LET family_records == locate_name_recs(names, FAMILY_ID)
        subfamily_records == locate_name_recs(names, SUBFAM_ID)
        names_1 == FontFile_setName(names, font_file_name, family_records, FAMILY_ID)
    IN  FontFile_setName(names_1, font_file_name, subfamily_records, SUBFAM_ID)

\* FontFile.__init__ on a font file the accessor can parse and that has a name table
FontFile(font_path) ==
    [font_file_name |-> get_basename_wo_ext(font_path.file_name),
     font_ext |-> get_ext(font_path.file_name),
     tables |-> font_path.tables,
     names |-> font_path.names,
     checkSumAdjustment |-> font_path.checkSumAdjustment,
     subset_options |-> FALSE]

(***************************************************************************)
(* Name resolution (name.getBestFamilyName / getBestSubFamilyName of       *)
(* fontTools) and the names FontFile hands to the packaging.               *)
(***************************************************************************)
\* name.getDebugName: the string of the first English record of the role
\* (Macintosh langID 0, Windows langID 0x409), else of its last record; an empty
\* string counts as no string
getDebugName(names, nameID) ==
    LET recs == {i \in 1..Len(names) : names[i].nameID = nameID}
        english == {i \in recs :
                       \/ names[i].platformID = 1 /\ names[i].langID = 0
                       \/ names[i].platformID = 3 /\ names[i].langID = 1033}
        first == CHOOSE i \in english : \A j \in english : i <= j
        final == CHOOSE i \in recs : \A j \in recs : j <= i
        \* the loop stops at the first English record
        englishName == IF english = {} THEN None ELSE names[first].string
        someName == IF english = {} THEN
                        (IF recs = {} THEN None ELSE names[final].string)
                    ELSE names[first].string
    IN  IF englishName # None /\ englishName # <<>> THEN englishName
        ELSE IF someName # None /\ someName # <<>> THEN someName
        ELSE None

RECURSIVE getFirstDebugName(_, _)
getFirstDebugName(names, nameIDs) ==
    IF nameIDs = <<>> THEN None
    ELSE IF getDebugName(names, Head(nameIDs)) # None
         THEN getDebugName(names, Head(nameIDs))
         ELSE getFirstDebugName(names, Tail(nameIDs))

getBestFamilyName(names) == getFirstDebugName(names, <<21, 16, 1>>)
getBestSubFamilyName(names) == getFirstDebugName(names, <<22, 17, 2>>)

\* FontFile._get_name
FontFile_get_name(ff, from_font) ==
    LET sanitised_file_name == sanitise_alphanum(ff.font_file_name, <<" ">>)
    IN  IF from_font # None THEN from_font ELSE sanitised_file_name

\* FontFile.get_combined_name
get_combined_name(ff, sep) ==
    LET family == FontFile_get_name(ff, getBestFamilyName(ff.names))
        subfam == FontFile_get_name(ff, getBestSubFamilyName(ff.names))
    IN  IF family = subfam THEN family ELSE family \o sep \o subfam

(***************************************************************************)
(* Files.  A font file holds its tables; saving recomputes                 *)
(* head.checkSumAdjustment in the file, not in the object that was saved.  *)
(***************************************************************************)
SavedChecksums == {<<1, 0>>, <<65535, 65535>>}

\* the file FontFile.save_to writes
SavedFont(ff, checksum) ==
    [tables |-> ff.tables, names |-> ff.names, checkSumAdjustment |-> checksum]

\* FontData taking the checksum of the FontFile object instead of the saved
\* file: a faulty variant, "pre-save checksum reused"
FontData_from_handle(file) ==
    [path |-> FONT_TTF_PATH,
     name_id_1 |-> IF getBestFamilyName(file.names) = None THEN None
                   ELSE encode_utf8(getBestFamilyName(file.names)),
     name_id_2 |-> IF getBestSubFamilyName(file.names) = None THEN None
                   ELSE encode_utf8(getBestSubFamilyName(file.names)),
     checkSumAdjustment |-> font_file.checkSumAdjustment]

\* FontData.__init__ on a font file with head and name tables, with the two
\* names get_font_data reads from it
FontData(file) ==
    [path |-> FONT_TTF_PATH,
     name_id_1 |-> IF getBestFamilyName(file.names) = None THEN None
                   ELSE encode_utf8(getBestFamilyName(file.names)),
     name_id_2 |-> IF getBestSubFamilyName(file.names) = None THEN None
                   ELSE encode_utf8(getBestSubFamilyName(file.names)),
     checkSumAdjustment |-> file.checkSumAdjustment]

\* the text the template files hold where the font name goes
PLACEHOLDER == <<"$$FONT_NAME$$">>

\* the apk directory BuildContext copies from the build files
TemplateDir ==
    [font_ttf |-> NoObject, font_dat |-> None,
     font_xml |-> PLACEHOLDER, manifest |-> PLACEHOLDER, strings |-> PLACEHOLDER]

\* build_files.replace_content, on the contents of the file
replace_content(contents, old_str, new_str) == str_replace(contents, old_str, new_str)

(***************************************************************************)
(* FontAPK.  Each method either returns or raises; a call is recorded in   *)
(* calls and last.                                                         *)
(***************************************************************************)
\* FontAPK.__init__
NewCompileReqs ==
    [font_data |-> FALSE, font_xml |-> FALSE, font_ttf |-> FALSE,
     manifest |-> FALSE, strings |-> FALSE]

Called(op, raised) ==
    /\ calls < MaxCalls
    /\ calls' = calls + 1
    /\ last' = [op |-> op, raised |-> raised]

\* a call of set_font_data that raises, and the statement that raised
RaisedAt(op, statement) ==
    /\ calls < MaxCalls
    /\ calls' = calls + 1
    /\ last' = [op |-> op, raised |-> TRUE, at |-> statement]

\* FontAPK.set_font_xml returns
set_font_xml_returns ==
    /\ Called("set_font_xml", FALSE)
    /\ apk_dir' = [apk_dir EXCEPT !.font_xml =
           replace_content(@, PLACEHOLDER,
               sanitise_alphanum(get_combined_name(font_file, <<" ", "-", " ">>), <<>>))]
    /\ compile_reqs' = [compile_reqs EXCEPT !.font_xml = TRUE]
    /\ UNCHANGED <<font_data, value>>

\* FontAPK.set_manifest returns
set_manifest_returns ==
    /\ Called("set_manifest", FALSE)
    /\ apk_dir' = [apk_dir EXCEPT !.manifest =
           replace_content(@, PLACEHOLDER,
               sanitise_alphanum(get_combined_name(font_file, <<" ", "-", " ">>), <<>>))]
    /\ compile_reqs' = [compile_reqs EXCEPT !.manifest = TRUE]
    /\ UNCHANGED <<font_data, value>>

\* FontAPK.set_strings leaving its flag alone: a faulty variant, "flag not set"
set_strings_no_flag ==
    /\ Called("set_strings", FALSE)
    /\ apk_dir' = [apk_dir EXCEPT !.strings =
           replace_content(@, PLACEHOLDER, get_combined_name(font_file, <<" ", "-", " ">>))]
    /\ UNCHANGED <<compile_reqs, font_data, value>>

\* FontAPK.set_strings returns
set_strings_returns ==
    /\ Called("set_strings", FALSE)
    /\ apk_dir' = [apk_dir EXCEPT !.strings =
           replace_content(@, PLACEHOLDER, get_combined_name(font_file, <<" ", "-", " ">>))]
    /\ compile_reqs' = [compile_reqs EXCEPT !.strings = TRUE]
    /\ UNCHANGED <<font_data, value>>

\* set_font_xml, set_manifest or set_strings raises: replace_content cannot open
\* its file; nothing is written and no flag is set
replace_content_raises(op) ==
    /\ Called(op, TRUE)
    /\ UNCHANGED <<compile_reqs, apk_dir, font_data, value>>

\* FontAPK.set_font_ttf returns: the font is saved, with the checksum the save
\* computes
set_font_ttf_returns ==
    /\ Called("set_font_ttf", FALSE)
    /\ \E checksum \in SavedChecksums :
          apk_dir' = [apk_dir EXCEPT !.font_ttf = SavedFont(font_file, checksum)]
    /\ compile_reqs' = [compile_reqs EXCEPT !.font_ttf = TRUE]
    /\ UNCHANGED <<font_data, value>>

\* FontAPK.set_font_ttf setting its flag before the save: a faulty variant,
\* "flag set although save_to failed"
set_font_ttf_flag_first ==
    /\ Called("set_font_ttf", TRUE)
    /\ compile_reqs' = [compile_reqs EXCEPT !.font_ttf = TRUE]
    /\ UNCHANGED <<apk_dir, font_data, value>>

\* FontAPK.set_font_ttf raises: save_to failed
set_font_ttf_raises ==
    /\ Called("set_font_ttf", TRUE)
    /\ UNCHANGED <<compile_reqs, apk_dir, font_data, value>>

\* FontAPK.set_font_data raises at its guard
set_font_data_guard_raises ==
    /\ ~compile_reqs.font_ttf
    /\ RaisedAt("set_font_data", "guard")
    /\ UNCHANGED <<compile_reqs, apk_dir, font_data, value>>

\* FontAPK.set_font_data raises in FontData(...): the saved font has no head table
set_font_data_init_raises ==
    /\ compile_reqs.font_ttf
    /\ ~({"head", "name"} \subseteq apk_dir.font_ttf.tables)
    /\ RaisedAt("set_font_data", "FontData")
    /\ UNCHANGED <<compile_reqs, apk_dir, font_data, value>>

\* FontAPK.set_font_data raises in get_font_data: a best name is None
set_font_data_encode_raises ==
    /\ compile_reqs.font_ttf
    /\ {"head", "name"} \subseteq apk_dir.font_ttf.tables
    /\ LET fd == FontData(apk_dir.font_ttf)
       IN  /\ fd.name_id_1 = None \/ fd.name_id_2 = None
           /\ font_data' = fd
    /\ RaisedAt("set_font_data", "get_font_data")
    /\ UNCHANGED <<compile_reqs, apk_dir, value>>

\* FontAPK.set_font_data raises at open(font_data_path, 'wb') (created is
\* FALSE), or at fdat.write after the file was created empty (created is TRUE)
set_font_data_write_raises(created) ==
    /\ compile_reqs.font_ttf
    /\ {"head", "name"} \subseteq apk_dir.font_ttf.tables
    /\ LET fd == FontData(apk_dir.font_ttf)
       IN  /\ fd.name_id_1 # None /\ fd.name_id_2 # None
           /\ font_data' = fd
           /\ value' = get_font_data(fd.name_id_1, fd.name_id_2, fd.checkSumAdjustment)
    /\ apk_dir' = IF created THEN [apk_dir EXCEPT !.font_dat = <<>>] ELSE apk_dir
    /\ RaisedAt("set_font_data", IF created THEN "write" ELSE "open")
    /\ UNCHANGED compile_reqs

\* FontAPK.set_font_data raises when the with block closes the file: the flag
\* was set inside the block, after fdat.write returned; what was written
\* reached the file (flushed is TRUE) or did not
set_font_data_close_raises(flushed) ==
    /\ compile_reqs.font_ttf
    /\ {"head", "name"} \subseteq apk_dir.font_ttf.tables
    /\ LET fd == FontData(apk_dir.font_ttf)
       IN  /\ fd.name_id_1 # None /\ fd.name_id_2 # None
           /\ font_data' = fd
           /\ value' = get_font_data(fd.name_id_1, fd.name_id_2, fd.checkSumAdjustment)
    /\ apk_dir' = [apk_dir EXCEPT !.font_dat = IF flushed THEN value' ELSE <<>>]
    /\ compile_reqs' = [compile_reqs EXCEPT !.font_data = TRUE]
    /\ RaisedAt("set_font_data", "close")

\* FontAPK.set_font_data returns
set_font_data_returns ==
    /\ compile_reqs.font_ttf
    /\ {"head", "name"} \subseteq apk_dir.font_ttf.tables
    /\ LET fd == FontData(apk_dir.font_ttf)
       IN  /\ fd.name_id_1 # None /\ fd.name_id_2 # None
           /\ font_data' = fd
           /\ value' = get_font_data(fd.name_id_1, fd.name_id_2, fd.checkSumAdjustment)
    /\ apk_dir' = [apk_dir EXCEPT !.font_dat = value']
    /\ compile_reqs' = [compile_reqs EXCEPT !.font_data = TRUE]
    /\ Called("set_font_data", FALSE)

\* FontAPK.is_read_to_complie
is_read_to_complie ==
    \A req \in DOMAIN compile_reqs : compile_reqs[req]

(***************************************************************************)
(* SpecData: get_font_data applied to every bounded (family, subfamily,    *)
(* checksum).                                                              *)
(***************************************************************************)
ByteAlphabet == {65, 255}
ChecksumLimbs == {0, 40076, 65535}

ByteStrings(n) == UNION {[1..k -> ByteAlphabet] : k \in 0..n}
Checksums == {<<lo, hi>> : lo \in ChecksumLimbs, hi \in ChecksumLimbs}

InitData ==
    /\ files = <<>> /\ count = 0 /\ pc = "get_font_data"
    /\ log = <<>> /\ output_dir = <<>>
    /\ font_file = NoObject
    /\ compile_reqs = NoObject /\ apk_dir = NoObject
    /\ font_data \in [path : {FONT_TTF_PATH},
                      name_id_1 : ByteStrings(MaxBytes),
                      name_id_2 : ByteStrings(MaxBytes),
                      checkSumAdjustment : Checksums]
    /\ value = None
    /\ calls = 0 /\ last = NoCall
    /\ san = NoObject

\* value = font_data.get_font_data()
GetFontDataCall ==
    /\ value = None
    /\ value' = get_font_data(font_data.name_id_1, font_data.name_id_2,
                              font_data.checkSumAdjustment)
    /\ UNCHANGED <<font_file, compile_reqs, apk_dir, font_data, calls, last>>
    /\ UNCHANGED mainVars
    /\ UNCHANGED san

NextData == GetFontDataCall

SpecData == InitData /\ [][NextData]_vars

(***************************************************************************)
(* SpecName: FontFile.sanitise_name applied to every bounded font.         *)
(***************************************************************************)
Cycle(pattern, n) == [i \in 1..n |-> pattern[((i - 1) % Len(pattern)) + 1]]

MyFontBang == <<"M", "y", " ", "F", "o", "n", "t", "!", "!">>

NameStrings ==
    { <<>>,
      MyFontBang,
      <<"-", "!">>,
      Cycle(<<"T", "7">>, MAX_CHARS),
      Cycle(<<"T", "7", EAcute>>, MAX_CHARS + 1),
      Cycle(MyFontBang, MAX_CHARS + 1),
      Cycle(MyFontBang, MaxNameLen) }

FileNames ==
    { MyFontBang \o <<".", "t", "t", "f">>,
      <<"F", ".", "t", "t", "f", "7", ".", "t", "t", "f">>,
      Cycle(MyFontBang, MaxNameLen) \o <<".", "o", "t", "f">> }

\* the name records a font may hold, in the order of its name table: at most one
\* per (role, platform, encoding, language)
Slots ==
    << [nameID |-> 1, platformID |-> 3, platEncID |-> 1, langID |-> 1033],
       [nameID |-> 1, platformID |-> 1, platEncID |-> 0, langID |-> 0],
       [nameID |-> 2, platformID |-> 3, platEncID |-> 1, langID |-> 1033],
       [nameID |-> 2, platformID |-> 1, platEncID |-> 0, langID |-> 0],
       [nameID |-> 4, platformID |-> 3, platEncID |-> 1, langID |-> 1033] >>

\* the string of the record of another role: not sanitised, over 32 characters
OtherRoleString == Cycle(<<"M", "y", "-", "F", "!">>, MAX_CHARS + 3)

\* the name table holding the slots of present, slot i with the string string[i]
NameTable(present, string) ==
    LET RECURSIVE from(_)
        from(i) ==
            IF i > Len(Slots) THEN <<>>
            ELSE (IF i \in present
                  THEN <<NameRecord(string[i], Slots[i].nameID, Slots[i].platformID,
                                    Slots[i].platEncID, Slots[i].langID)>>
                  ELSE <<>>) \o from(i + 1)
    IN  from(1)

NameTables(strings) ==
    { NameTable(present, string) :
        present \in SUBSET (1..Len(Slots)),
        string \in {f \in [1..Len(Slots) -> strings \cup {OtherRoleString}] :
                       /\ f[Len(Slots)] = OtherRoleString
                       /\ \A i \in 1..(Len(Slots) - 1) : f[i] \in strings} }

InitName ==
    /\ \E file_name \in FileNames, names \in NameTables(NameStrings) :
          files = << [file_name |-> file_name, parsable |-> TRUE,
                      tables |-> {"head", "name", "cmap"}, names |-> names,
                      checkSumAdjustment |-> <<0, 0>>] >>
    /\ count = 1
    /\ pc = "sanitise_name"
    /\ log = <<>> /\ output_dir = <<"absent">>
    /\ font_file = FontFile(files[1])
    /\ compile_reqs = NoObject /\ apk_dir = NoObject
    /\ font_data = NoObject /\ value = None
    /\ calls = 0 /\ last = NoCall
    /\ san = NoObject

\* font_file.sanitise_name()
SanitiseNameCall ==
    /\ pc = "sanitise_name"
    /\ font_file' = [font_file EXCEPT
                        !.names = sanitise_name(@, font_file.font_file_name)]
    /\ pc' = "subset_font"
    /\ UNCHANGED <<files, count, log, output_dir>>
    /\ UNCHANGED apkVars
    /\ UNCHANGED san

NextName == SanitiseNameCall

SpecName == InitName /\ [][NextName]_vars

(***************************************************************************)
(* SpecSan: sanitise_alphanum applied to every bounded (name, to_ignore),  *)
(* and then to what it returned.  san.names holds the string given first   *)
(* and, after it, what each call returned.                                 *)
(***************************************************************************)
SanAlphabet == {"T", "7", " ", "!", "-"}

SanStrings == UNION {[1..n -> SanAlphabet] : n \in 0..MaxSanLen}

ToIgnores == {<<>>, <<" ">>, <<"!", "-">>, <<" ", "T">>, <<"-", "-">>}

InitSan ==
    /\ \E name \in SanStrings, to_ignore \in ToIgnores :
          san = [to_ignore |-> to_ignore, names |-> <<name>>]
    /\ files = <<>> /\ count = 1
    /\ pc = "sanitise_alphanum"
    /\ log = <<>> /\ output_dir = <<>>
    /\ font_file = NoObject
    /\ compile_reqs = NoObject /\ apk_dir = NoObject
    /\ font_data = NoObject /\ value = None
    /\ calls = 0 /\ last = NoCall

SanitiseAlphanumCall ==
    /\ pc = "sanitise_alphanum"
    /\ Len(san.names) <= MaxSanCalls
    /\ san' = [san EXCEPT !.names =
                  Append(@, sanitise_alphanum(@[Len(@)], san.to_ignore))]
    /\ UNCHANGED <<files, count, pc, log, output_dir, font_file>>
    /\ UNCHANGED apkVars

NextSan == SanitiseAlphanumCall

SpecSan == InitSan /\ [][NextSan]_vars

(***************************************************************************)
(* The input fonts of the pipeline.                                        *)
(***************************************************************************)
AllTables == {"head", "name", "cmap"}

FontInput(file_name, parsable, tables, names) ==
    [file_name |-> file_name, parsable |-> parsable, tables |-> tables,
     names |-> names, checkSumAdjustment |-> <<1, 0>>]

MyFontTtf == MyFontBang \o <<".", "t", "t", "f">>
T7Otf == <<"T", "7", ".", "o", "t", "f">>

\* a font with a family and a subfamily record
NamedFont ==
    FontInput(T7Otf, TRUE, AllTables,
              NameTable({1, 3}, [i \in 1..Len(Slots) |->
                                    IF i = 1 THEN MyFontBang ELSE <<"T", "-", "7">>]))
\* a font without name records
NamelessFont == FontInput(MyFontTtf, TRUE, AllTables, <<>>)
\* a font whose family name has no permitted character
PunctuationFont ==
    FontInput(T7Otf, TRUE, AllTables,
              NameTable({1, 3}, [i \in 1..Len(Slots) |-> <<"-", "!">>]))
\* fonts that lack a required table, and a file that is no font
NoHeadFont == FontInput(T7Otf, TRUE, {"name", "cmap"}, <<>>)
NoCmapFont == FontInput(T7Otf, TRUE, {"head", "name"}, <<>>)
NoNameFont == FontInput(T7Otf, TRUE, {"head", "cmap"}, <<>>)
BrokenFont == FontInput(T7Otf, FALSE, {}, <<>>)

FontInputs ==
    {NamedFont, NamelessFont, PunctuationFont, NoHeadFont, NoCmapFont, NoNameFont,
     BrokenFont}

\* FontFile.subset_font, as far as the packaging sees it
subset_font(ff) == [ff EXCEPT !.subset_options = TRUE]

\* the FontFile main hands to FontAPK: sanitise_name, then subset_font
Prepared(font_path) ==
    LET ff == FontFile(font_path)
    IN  subset_font([ff EXCEPT !.names = sanitise_name(@, ff.font_file_name)])

(***************************************************************************)
(* SpecAPK: the methods of one FontAPK called in any order.                *)
(***************************************************************************)
InitAPK ==
    /\ files = <<>> /\ count = 0 /\ pc = "FontAPK"
    /\ log = <<>> /\ output_dir = <<>>
    /\ font_file \in {Prepared(NamedFont), Prepared(NamelessFont),
                      Prepared(PunctuationFont), Prepared(NoHeadFont),
                      FontFile(NamelessFont)}
    /\ compile_reqs = NewCompileReqs
    /\ apk_dir = TemplateDir
    /\ font_data = NoObject /\ value = None
    /\ calls = 0 /\ last = NoCall
    /\ san = NoObject

API_set_font_xml ==
    /\ set_font_xml_returns \/ replace_content_raises("set_font_xml")
    /\ UNCHANGED <<mainVars, font_file>>
    /\ UNCHANGED san

API_set_manifest ==
    /\ set_manifest_returns \/ replace_content_raises("set_manifest")
    /\ UNCHANGED <<mainVars, font_file>>
    /\ UNCHANGED san

API_set_strings ==
    /\ set_strings_returns \/ replace_content_raises("set_strings")
    /\ UNCHANGED <<mainVars, font_file>>
    /\ UNCHANGED san

API_set_font_ttf ==
    /\ set_font_ttf_returns \/ set_font_ttf_raises
    /\ UNCHANGED <<mainVars, font_file>>
    /\ UNCHANGED san

API_set_font_data ==
    /\ \/ set_font_data_guard_raises
       \/ set_font_data_init_raises
       \/ set_font_data_encode_raises
       \/ \E created \in BOOLEAN : set_font_data_write_raises(created)
       \/ \E flushed \in BOOLEAN : set_font_data_close_raises(flushed)
       \/ set_font_data_returns
    /\ UNCHANGED <<mainVars, font_file>>
    /\ UNCHANGED san

NextAPK ==
    \/ API_set_font_xml
    \/ API_set_manifest
    \/ API_set_strings
    \/ API_set_font_ttf
    \/ API_set_font_data

SpecAPK == InitAPK /\ [][NextAPK]_vars

(***************************************************************************)
(* SpecMain: main() over a batch of input fonts.  pc names the statement   *)
(* of the loop body that runs next; a statement that raises leaves         *)
(* pc = "raise", and the exception then leaves the with block (which       *)
(* removes the temporary directory) and main, is logged by the handler at  *)
(* the bottom of main.py and is raised again: the process ends.            *)
(***************************************************************************)
Batches == UNION {[1..n -> FontInputs] : n \in 1..MaxFiles}

InitMain ==
    /\ files \in Batches
    /\ count = 1
    /\ pc = "FontFile"
    /\ log = <<>>
    /\ output_dir = [i \in 1..Len(files) |-> "absent"]
    /\ font_file = NoObject
    /\ compile_reqs = NoObject /\ apk_dir = NoObject
    /\ font_data = NoObject /\ value = None
    /\ calls = 0 /\ last = NoCall
    /\ san = NoObject

\* the statement at pc returned: go to the next one
Goto(next) == pc' = next /\ UNCHANGED <<files, count, log, output_dir>>

\* the statement at pc raised
Raise == pc' = "raise" /\ UNCHANGED <<files, count, log, output_dir>>

\* font_file = FontFile(font_path)
Main_FontFile ==
    /\ pc = "FontFile"
    /\ IF files[count].parsable /\ "name" \in files[count].tables
       THEN /\ font_file' = FontFile(files[count])
            /\ last' = [op |-> "FontFile", raised |-> FALSE]
            /\ Goto("sanitise_name")
       ELSE /\ last' = [op |-> "FontFile", raised |-> TRUE]
            /\ Raise
            /\ UNCHANGED font_file
    /\ UNCHANGED <<compile_reqs, apk_dir, font_data, value, calls>>
    /\ UNCHANGED san

\* font_file.subset_font()
Main_subset_font ==
    /\ pc = "subset_font"
    /\ IF "cmap" \in font_file.tables
       THEN /\ font_file' = subset_font(font_file)
            /\ last' = [op |-> "subset_font", raised |-> FALSE]
            /\ Goto("BuildContext")
       ELSE /\ last' = [op |-> "subset_font", raised |-> TRUE]
            /\ Raise
            /\ UNCHANGED font_file
    /\ UNCHANGED <<compile_reqs, apk_dir, font_data, value, calls>>
    /\ UNCHANGED san

\* with BuildContext(build_files) as bc: font_apk = FontAPK(bc.apk_dir)
Main_BuildContext ==
    /\ pc = "BuildContext"
    /\ \/ /\ apk_dir' = TemplateDir
          /\ compile_reqs' = NewCompileReqs
          /\ calls' = 0
          /\ last' = [op |-> "BuildContext", raised |-> FALSE]
          /\ Goto("set_font_ttf")
       \/ /\ last' = [op |-> "BuildContext", raised |-> TRUE]
          /\ Raise
          /\ UNCHANGED <<compile_reqs, apk_dir, calls>>
    /\ UNCHANGED <<font_file, font_data, value>>
    /\ UNCHANGED san

\* font_apk.set_font_ttf(font_file)
Main_set_font_ttf ==
    /\ pc = "set_font_ttf"
    /\ \/ set_font_ttf_returns /\ Goto("set_font_data")
       \/ set_font_ttf_raises /\ Raise
    /\ UNCHANGED font_file
    /\ UNCHANGED san

\* font_apk.set_font_data()
Main_set_font_data ==
    /\ pc = "set_font_data"
    /\ \/ set_font_data_returns /\ Goto("set_font_xml")
       \/ /\ \/ set_font_data_guard_raises
             \/ set_font_data_init_raises
             \/ set_font_data_encode_raises
             \/ \E created \in BOOLEAN : set_font_data_write_raises(created)
             \/ \E flushed \in BOOLEAN : set_font_data_close_raises(flushed)
          /\ Raise
    /\ UNCHANGED font_file
    /\ UNCHANGED san

\* font_apk.set_font_xml(full_name)
Main_set_font_xml ==
    /\ pc = "set_font_xml"
    /\ \/ set_font_xml_returns /\ Goto("set_manifest")
       \/ replace_content_raises("set_font_xml") /\ Raise
    /\ UNCHANGED font_file
    /\ UNCHANGED san

\* font_apk.set_manifest(full_name)
Main_set_manifest ==
    /\ pc = "set_manifest"
    /\ \/ set_manifest_returns /\ Goto("set_strings")
       \/ replace_content_raises("set_manifest") /\ Raise
    /\ UNCHANGED font_file
    /\ UNCHANGED san

\* font_apk.set_strings(full_name)
Main_set_strings ==
    /\ pc = "set_strings"
    /\ \/ set_strings_returns /\ Goto("APKToolJar")
       \/ replace_content_raises("set_strings") /\ Raise
    /\ UNCHANGED font_file
    /\ UNCHANGED san

\* apktool = APKToolJar(...): raises when the jar is not there
Main_APKToolJar ==
    /\ pc = "APKToolJar"
    /\ \/ last' = [op |-> "APKToolJar", raised |-> FALSE] /\ Goto("build")
       \/ last' = [op |-> "APKToolJar", raised |-> TRUE] /\ Raise
    /\ UNCHANGED <<font_file, compile_reqs, apk_dir, font_data, value, calls>>
    /\ UNCHANGED san

\* apk_path = gen_unique_apk_path(...); apktool.build(bc.apk_dir, apk_path,
\* output_path): apktool writes the apk to the output directory, or fails
Main_build ==
    /\ pc = "build"
    /\ \/ /\ output_dir' = [output_dir EXCEPT ![count] = "unsigned"]
          /\ last' = [op |-> "build", raised |-> FALSE]
          /\ pc' = "APKSignerJar"
          /\ UNCHANGED <<files, count, log>>
       \/ last' = [op |-> "build", raised |-> TRUE] /\ Raise
    /\ UNCHANGED <<font_file, compile_reqs, apk_dir, font_data, value, calls>>
    /\ UNCHANGED san

\* apksigner = APKSignerJar(...): raises when the jar is not there
Main_APKSignerJar ==
    /\ pc = "APKSignerJar"
    /\ \/ last' = [op |-> "APKSignerJar", raised |-> FALSE] /\ Goto("sign")
       \/ last' = [op |-> "APKSignerJar", raised |-> TRUE] /\ Raise
    /\ UNCHANGED <<font_file, compile_reqs, apk_dir, font_data, value, calls>>
    /\ UNCHANGED san

\* apksigner.sign(apk_path, output_path), then the end of the with block and of
\* the loop body: the temporary directory is removed and the next font is taken
Main_sign ==
    /\ pc = "sign"
    /\ \/ /\ output_dir' = [output_dir EXCEPT ![count] = "signed"]
          /\ last' = [op |-> "sign", raised |-> FALSE]
          /\ apk_dir' = NoObject
          /\ IF count < Len(files)
             THEN count' = count + 1 /\ pc' = "FontFile"
             ELSE count' = count /\ pc' = "done"
          /\ UNCHANGED <<files, log>>
       \/ /\ last' = [op |-> "sign", raised |-> TRUE]
          /\ Raise
          /\ UNCHANGED apk_dir
    /\ UNCHANGED <<font_file, compile_reqs, font_data, value, calls>>
    /\ UNCHANGED san

\* an exception leaves main: the temporary directory, if any, is removed, the
\* handler logs the error and raises it again
Main_except ==
    /\ pc = "raise"
    /\ apk_dir' = NoObject
    /\ log' = Append(log, [font |-> count, error |-> last.op])
    /\ pc' = "exit"
    /\ UNCHANGED <<files, count, output_dir, font_file, compile_reqs, font_data,
                   value, calls, last>>
    /\ UNCHANGED san

NextMain ==
    \/ Main_FontFile
    \/ SanitiseNameCall
    \/ Main_subset_font
    \/ Main_BuildContext
    \/ Main_set_font_ttf
    \/ Main_set_font_data
    \/ Main_set_font_xml
    \/ Main_set_manifest
    \/ Main_set_strings
    \/ Main_APKToolJar
    \/ Main_build
    \/ Main_APKSignerJar
    \/ Main_sign
    \/ Main_except

SpecMain == InitMain /\ [][NextMain]_vars

(***************************************************************************)
(* The name records before (the font file on disk) and after               *)
(* sanitise_name (the in-memory font).                                     *)
(***************************************************************************)
Sanitised == pc # "sanitise_name" /\ font_file # NoObject
OldNames == files[count].names
NewNames == font_file.names

SameKey(r, q) ==
    /\ r.nameID = q.nameID /\ r.platformID = q.platformID
    /\ r.platEncID = q.platEncID /\ r.langID = q.langID

RECURSIVE KeepPermitted(_)
\* the characters of s that are alphanumeric or a space, in order
KeepPermitted(s) ==
    IF s = <<>> THEN <<>>
    ELSE (IF Head(s) \in AlnumChars \cup {" "} THEN <<Head(s)>> ELSE <<>>)
         \o KeepPermitted(Tail(s))

First32(s) == IF Len(s) <= 32 THEN s ELSE SubSeq(s, 1, 32)

RoleRecs(names, role) == SelectSeq(names, LAMBDA r : r.nameID = role)

NoNameRecords == RoleRecs(OldNames, 1) = <<>> /\ RoleRecs(OldNames, 2) = <<>>
IsMyFontFile == files[count].file_name = MyFontBang \o <<".", "t", "t", "f">>

\* C6 as stated: with no family/subfamily records and source filename
\* "My Font!!.ttf", sanitise_name leaves a family record and a subfamily record of
\* value "MyFont".
C6_Original ==
    (Sanitised /\ NoNameRecords /\ IsMyFontFile) =>
        \A role \in {1, 2} :
            \E i \in 1..Len(NewNames) :
                /\ NewNames[i].nameID = role
                /\ NewNames[i].string = <<"M", "y", "F", "o", "n", "t">>

\* C6 amended: with no family/subfamily records and source filename
\* "My Font!!.ttf", sanitise_name leaves exactly one family record and exactly one
\* subfamily record, each of value "My Font": the space is on the allow-list and
\* is kept, only the exclamation marks go.
C6_SynthesizedMyFont ==
    (Sanitised /\ NoNameRecords /\ IsMyFontFile) =>
        \A role \in {1, 2} :
            /\ Len(RoleRecs(NewNames, role)) = 1
            /\ RoleRecs(NewNames, role)[1].string = <<"M", "y", " ", "F", "o", "n", "t">>

\* C6 witness: sanitise_name has run on "My Font!!.ttf" without name records of
\* either role.
C6_Witness == Sanitised /\ NoNameRecords /\ IsMyFontFile

\* C7: after sanitise_name every record of role 1 or 2 has at most 32 characters,
\* all alphanumeric or space; and a record whose prior value, sanitised, is longer
\* than 32 characters now holds exactly the first 32 characters of that form.
C7_NamesBounded ==
    Sanitised =>
        /\ \A i \in 1..Len(NewNames) :
              NewNames[i].nameID \in {1, 2} =>
                  /\ Len(NewNames[i].string) <= 32
                  /\ \A k \in 1..Len(NewNames[i].string) :
                        NewNames[i].string[k] \in AlnumChars \cup {" "}
        /\ \A i \in 1..Len(OldNames) :
              (OldNames[i].nameID \in {1, 2} /\ Len(KeepPermitted(OldNames[i].string)) > 32) =>
                  \E j \in 1..Len(NewNames) :
                      /\ SameKey(NewNames[j], OldNames[i])
                      /\ Len(NewNames[j].string) = 32
                      /\ NewNames[j].string = SubSeq(KeepPermitted(OldNames[i].string), 1, 32)
                      /\ \A k \in 1..Len(NewNames) :
                            SameKey(NewNames[k], OldNames[i]) => k = j

\* C7 witness: sanitise_name has run on a font with a family record whose
\* sanitised value is longer than 32 characters and a subfamily record whose raw
\* value is longer than 32 but whose sanitised value is not.
C7_Witness ==
    /\ Sanitised
    /\ \E i \in 1..Len(OldNames) :
          OldNames[i].nameID = 1 /\ Len(KeepPermitted(OldNames[i].string)) > 32
    /\ \E i \in 1..Len(OldNames) :
          /\ OldNames[i].nameID = 2
          /\ Len(OldNames[i].string) > 32
          /\ Len(KeepPermitted(OldNames[i].string)) < 32

\* what C8 says of the roles that had records, with `form` the value each record
\* is said to hold, and of the roles that had none, and of the other roles
C8_Frame(form(_)) ==
    Sanitised =>
        /\ \A role \in {1, 2} :
              LET old == RoleRecs(OldNames, role)
                  new == RoleRecs(NewNames, role)
              IN  IF old # <<>>
                  THEN /\ Len(new) = Len(old)
                       /\ \A i \in 1..Len(old) :
                             SameKey(new[i], old[i]) /\ new[i].string = form(old[i].string)
                  ELSE /\ Len(new) = 1
                       /\ new[1].platformID = 3 /\ new[1].platEncID = 1
                       /\ new[1].langID = 1033
                       /\ new[1].string =
                              First32(KeepPermitted(get_basename_wo_ext(files[count].file_name)))
        /\ SelectSeq(NewNames, LAMBDA r : r.nameID \notin {1, 2})
               = SelectSeq(OldNames, LAMBDA r : r.nameID \notin {1, 2})

\* C8 as stated: records are never deleted or merged; a role with records keeps
\* its keys and each record holds the sanitised form of its own prior value; a
\* role without records gets exactly one, under (3, 1, 1033), holding the
\* sanitised, 32-character-truncated source filename; other roles are untouched.
C8_Original == C8_Frame(KeepPermitted)

\* C8 amended: the same, except that each existing record holds the sanitised
\* form of its own prior value truncated to its first 32 characters.
C8_RecordsKept == C8_Frame(LAMBDA s : First32(KeepPermitted(s)))

\* C8 witness: sanitise_name has run on a font with two family records (one of
\* them over 32 characters once sanitised), no subfamily record and a record of
\* another role.
C8_Witness ==
    /\ Sanitised
    /\ Len(RoleRecs(OldNames, 1)) = 2
    /\ \E i \in 1..2 : Len(KeepPermitted(RoleRecs(OldNames, 1)[i].string)) > 32
    /\ RoleRecs(OldNames, 2) = <<>>
    /\ \E i \in 1..Len(OldNames) : OldNames[i].nameID = 4

(***************************************************************************)
(* sanitise_alphanum as a subsequence.  The characters permitted by an     *)
(* allow-list, the positions of a string that hold one, and the string     *)
(* read off those positions in increasing order.                           *)
(***************************************************************************)
Permitted(char, allowed) ==
    char \in AlnumChars \/ char \in {allowed[i] : i \in 1..Len(allowed)}

PermittedAt(s, allowed) == {i \in 1..Len(s) : Permitted(s[i], allowed)}

IsPermittedSubsequence(r, s, allowed) ==
    LET kept == PermittedAt(s, allowed)
    IN  /\ Len(r) = Cardinality(kept)
        /\ \A i \in kept : r[Cardinality({j \in kept : j <= i})] = s[i]

\* C11: what sanitise_alphanum(s, A) returns is the subsequence of s made of
\* exactly the characters of s that are alphanumeric or in A, in their
\* original order: it holds no character that s does not hold, it is empty
\* when s holds no permitted character, and sanitise_alphanum applied to it
\* with the same A returns it unchanged.
C11_PermittedSubsequence ==
    Len(san.names) >= 2 =>
        LET s == san.names[1]
            r == san.names[2]
        IN  /\ IsPermittedSubsequence(r, s, san.to_ignore)
            /\ \A k \in 1..Len(r) : \E i \in 1..Len(s) : s[i] = r[k]
            /\ PermittedAt(s, san.to_ignore) = {} => r = <<>>
            /\ \A n \in 3..Len(san.names) : san.names[n] = r

\* a string with characters that are dropped, alphanumeric characters and
\* characters kept because the allow-list names them, sanitised twice
C11_Witness ==
    /\ Len(san.names) >= 3
    /\ Len(san.names[2]) < Len(san.names[1])
    /\ \E k \in 1..Len(san.names[2]) : san.names[2][k] \in AlnumChars
    /\ \E k \in 1..Len(san.names[2]) : san.names[2][k] \notin AlnumChars

(***************************************************************************)
(* Fixed-width (two 16-bit limbs) arithmetic used to state the claims:     *)
(* every operation reduces modulo 2^32 at once.                            *)
(***************************************************************************)
Add32(a, b) ==
    LET t == a[1] + b[1]
    IN  <<t % Base, (a[2] + b[2] + t \div Base) % Base>>

\* (h * 0x21 + b) mod 2^32
RollStep(h, b) ==
    LET t == h[1] * 33 + b
    IN  <<t % Base, (h[2] * 33 + t \div Base) % Base>>

RECURSIVE RollingHash(_, _)
RollingHash(h, s) ==
    IF s = <<>> THEN h ELSE RollingHash(RollStep(h, Head(s)), Tail(s))

\* the 32-bit value four little-endian bytes stand for
Dec32(b) == <<b[1] + 256 * b[2], b[3] + 256 * b[4]>>

IsBytes(b) == \A i \in 1..Len(b) : b[i] \in 0..255

\* the n bytes of v that follow offset off
Slice(v, off, n) == SubSeq(v, off + 1, off + n)

F_ == font_data.name_id_1
S_ == font_data.name_id_2
C_ == font_data.checkSumAdjustment

\* C1: get_font_data returns magic | len(F) | F | len(F) | F | len(S) | S | C |
\* checksum_plus | combined | len(F) | F and nothing else: read back field by
\* field, the returned bytes hold the magic number, the family block three
\* times, the subfamily block once and the three 4-byte words, each length a
\* 4-byte little-endian byte count, and the total length leaves room for
\* nothing more.
C1_Layout ==
    value # None =>
        LET f == Len(F_)
            s == Len(S_)
            o2 == 4 + (4 + f)
            o3 == o2 + (4 + f)
            o4 == o3 + (4 + s)
            o5 == o4 + 12
        IN  /\ IsBytes(value)
            /\ Len(value) = 4 + 3 * (4 + f) + (4 + s) + 12
            /\ Slice(value, 0, 4) = <<145, 66, 35, 52>>
            /\ Dec32(Slice(value, 4, 4)) = <<f, 0>>
            /\ Slice(value, 8, f) = F_
            /\ Dec32(Slice(value, o2, 4)) = <<f, 0>>
            /\ Slice(value, o2 + 4, f) = F_
            /\ Dec32(Slice(value, o3, 4)) = <<s, 0>>
            /\ Slice(value, o3 + 4, s) = S_
            /\ Dec32(Slice(value, o4, 4)) = C_
            /\ Dec32(Slice(value, o4 + 4, 4)) = Add32(C_, <<25460, 26745>>)
            /\ Dec32(Slice(value, o4 + 8, 4)) =
                   Add32(Add32(Add32(RollingHash(<<5381, 0>>, F_),
                                     RollingHash(<<5381, 0>>, F_)),
                               RollingHash(<<5381, 0>>, S_)),
                         <<27067, 26745>>)
            /\ Dec32(Slice(value, o5, 4)) = <<f, 0>>
            /\ Slice(value, o5 + 4, f) = F_

\* C1 witness: a descriptor was produced for a non-empty family and a non-empty,
\* different subfamily.
C1_Witness ==
    /\ value # None
    /\ Len(F_) = 3 /\ Len(S_) = 2 /\ F_[1] # S_[1]

\* C9: _calc_hash (unreduced multiply-add, one mask at the end) equals the
\* rolling hash seeded at 0x1505 that reduces hash*0x21 + b modulo 2^32 after
\* every byte; hash(empty) = 0x1505 and hash("A") = (0x1505*0x21 + 65) mod 2^32.
C9_HashEqualsRolling ==
    \A s \in {F_, S_} :
        /\ calc_hash(s) = RollingHash(<<5381, 0>>, s)
        /\ s = <<>> => calc_hash(s) = <<5381, 0>>
        /\ s = <<65>> => calc_hash(s) = <<(5381 * 33 + 65) % Base, (5381 * 33 + 65) \div Base>>

\* C9 witness: the descriptor was produced from a family whose unreduced hash
\* does not fit 32 bits (its third limb is non-zero) and an empty subfamily.
C9_Witness ==
    /\ value # None
    /\ Limb(hash_loop(PyInt(5381), F_), 3) > 0
    /\ S_ = <<>>

\* the two derived fields of the descriptor
PlusField == Slice(value, 4 + 2 * (4 + Len(F_)) + (4 + Len(S_)) + 4, 4)
CombinedField == Slice(value, 4 + 2 * (4 + Len(F_)) + (4 + Len(S_)) + 8, 4)

\* C10: checksum_plus = (C + 0x68796374) mod 2^32 and
\* combined = (2*h1 + h2 + 0x687969bb) mod 2^32, each emitted as exactly four
\* little-endian bytes, also when the unreduced sum is 2^32 or more.
C10_DerivedFieldsWrap ==
    value # None =>
        LET h1 == calc_hash(F_)
            h2 == calc_hash(S_)
        IN  /\ Len(value) = 4 + 3 * (4 + Len(F_)) + (4 + Len(S_)) + 12
            /\ IsBytes(PlusField) /\ IsBytes(CombinedField)
            /\ Dec32(PlusField) = Add32(C_, <<CONSTANT_1 % Base, CONSTANT_1 \div Base>>)
            /\ Dec32(CombinedField) =
                   Add32(Add32(Add32(h1, h1), h2),
                         <<CONSTANT_2 % Base, CONSTANT_2 \div Base>>)

\* C10 witness: both unreduced sums are 2^32 or more (a third limb appears).
C10_Witness ==
    /\ value # None
    /\ Limb(Add(C_, PyInt(CONSTANT_1)), 3) > 0
    /\ Limb(Add(Add(MulAdd(calc_hash(F_), 2, 0), calc_hash(S_)), PyInt(CONSTANT_2)), 3) > 0

(***************************************************************************)
(* Claims about FontAPK.                                                   *)
(***************************************************************************)
\* the checksum word of a descriptor made for the names of the FontData fd
DescriptorChecksum(descriptor, fd) ==
    Dec32(Slice(descriptor,
                4 + 2 * (4 + Len(fd.name_id_1)) + (4 + Len(fd.name_id_2)), 4))

\* a step that is a call of set_font_data
SetFontDataStep == calls' # calls /\ last'.op = "set_font_data"

\* C2: the descriptor is encoded only after the font has been saved, from a new
\* FontData opened on font_ttf_path, and its checksum word is the
\* checkSumAdjustment of the saved file; set_font_data called while font_ttf is
\* false raises and writes no font.dat.
C2_EncodeAfterSave ==
    [][ /\ apk_dir'.font_dat # apk_dir.font_dat =>
              SetFontDataStep /\ compile_reqs.font_ttf /\ apk_dir.font_ttf # NoObject
        /\ (SetFontDataStep /\ ~compile_reqs.font_ttf) =>
              /\ last'.raised
              /\ apk_dir' = apk_dir
              /\ compile_reqs' = compile_reqs
        /\ (SetFontDataStep /\ ~last'.raised) =>
              /\ compile_reqs.font_ttf
              /\ apk_dir.font_ttf.names = font_file.names
              /\ font_data'.path = FONT_TTF_PATH
              /\ font_data'.name_id_1 = encode_utf8(getBestFamilyName(apk_dir.font_ttf.names))
              /\ font_data'.checkSumAdjustment = apk_dir.font_ttf.checkSumAdjustment
              /\ apk_dir'.font_dat # None
              /\ DescriptorChecksum(apk_dir'.font_dat, font_data')
                     = apk_dir.font_ttf.checkSumAdjustment
              /\ compile_reqs'.font_data
      ]_vars

\* C2 witness: set_font_data has just written a descriptor whose checksum word is
\* that of the saved file, which differs from the one the FontFile object holds.
C2_Witness ==
    /\ last = [op |-> "set_font_data", raised |-> FALSE]
    /\ apk_dir.font_dat # None
    /\ apk_dir.font_ttf.checkSumAdjustment # font_file.checkSumAdjustment
    /\ DescriptorChecksum(apk_dir.font_dat, font_data) = apk_dir.font_ttf.checkSumAdjustment

\* the operation that sets each readiness flag
OwnOperation ==
    [font_data |-> "set_font_data", font_xml |-> "set_font_xml",
     font_ttf |-> "set_font_ttf", manifest |-> "set_manifest",
     strings |-> "set_strings"]

\* the five flags, one by one
AllFiveFlags ==
    /\ compile_reqs.font_data
    /\ compile_reqs.font_xml
    /\ compile_reqs.font_ttf
    /\ compile_reqs.manifest
    /\ compile_reqs.strings

\* the call that has just been made got past its write: it returned, or it
\* is set_font_data and raised only when its file was closed
WriteCallReturned ==
    \/ ~last.raised
    \/ last.op = "set_font_data" /\ last.at = "close"

\* the statements of set_font_data that come before its file is open
BeforeFileOpen == {"guard", "FontData", "get_font_data", "open"}

C3_BatchContinues ==
    pc \in {"done", "exit"} => count = Len(files)

\* C4: apktool's build is never started for a font while any of the five
\* readiness flags of that font's FontAPK is false.
C4_BuildOnlyWhenReady ==
    pc = "build" =>
        /\ compile_reqs.font_data /\ compile_reqs.font_xml /\ compile_reqs.font_ttf
        /\ compile_reqs.manifest /\ compile_reqs.strings

\* C4 witness: main is about to start the build for the second font of a batch.
C4_Witness == pc = "build" /\ count = 2

\* C5: whenever processing of a font fails at any step, no output file for that
\* font remains in the output directory.
C5_NoOutputOnFailure ==
    \A i \in 1..Len(log) : output_dir[log[i].font] = "absent"

=============================================================================
